---- MODULE Spec2Model ----
(***************************************************************************)
(* A state-machine model of src/crypto_class.py: the Crypto class          *)
(* (data_transform, nasdaq_data_transform, comparison_graph, run_script)   *)
(* and the module function convert_timestamp.                              *)
(*                                                                         *)
(* Floating-point values are modelled as exact values of four kinds: a     *)
(* finite rational n/d (d > 0, not reduced), +inf, -inf and NaN, with the  *)
(* IEEE-754 rules for division by zero and for products with inf and NaN.  *)
(* Strings that the program inspects (dates) are sequences of one-         *)
(* character strings.                                                      *)
(***************************************************************************)
EXTENDS Integers, Sequences, FiniteSets, TLC

VARIABLES
    pc,           \* position of the client / of run_script
    ids,          \* run_script's argument ids
    i,            \* 1-based position of the loop over ids of line 84
    rows,         \* data_transform's local list rows
    df,           \* self.df
    merged_df,    \* self.merged_df
    nasdaq_data,  \* what yahoo_download returned to the last merge
    responses,    \* what coingekko_download returned, per position of ids
    window,       \* the market data the asset provider serves: [dup, study]
    output,       \* what comparison_graph printed and showed, in order
    csv,          \* the merged_data.csv written by run_script (NoFile if none)
    ts_in,        \* convert_timestamp's argument (NoTs if not called)
    ts_out        \* convert_timestamp's result

vars == <<pc, ids, i, rows, df, merged_df, nasdaq_data, responses, window,
          output, csv, ts_in, ts_out>>

-----------------------------------------------------------------------------
(* Bounds of the model. *)

\* the longest price or market-cap series the asset provider returns
MaxLen == 2
\* market caps are drawn from 0..MaxCap
MaxCap == 2
\* convert_timestamp is applied to timestamps of the days -TsDays..TsDays
TsDays == 20

-----------------------------------------------------------------------------
(* Floating-point values. *)

NaN == [k |-> "nan"]
Inf(s) == [k |-> "inf", s |-> s]
Fin(n, d) == [k |-> "fin", n |-> n, d |-> d]
Sign(n) == IF n > 0 THEN 1 ELSE IF n < 0 THEN -1 ELSE 0
IsNaN(x) == x.k = "nan"
IsFin(x) == x.k = "fin"

\* a variant of the division that answers 0 for a zero divisor
Div_ZeroForZero(a, b) ==
    IF b = 0 THEN [k |-> "fin", n |-> 0, d |-> 1]
    ELSE IF b > 0 THEN [k |-> "fin", n |-> a, d |-> b]
    ELSE [k |-> "fin", n |-> -a, d |-> -b]

\* a / b for two integers, as numpy divides two floats
Div(a, b) ==
    IF b = 0
    THEN IF a = 0 THEN NaN ELSE Inf(Sign(a))
    ELSE IF b > 0 THEN Fin(a, b) ELSE Fin(-a, -b)

\* x * p for a float x and an integer p
MulInt(x, p) ==
    CASE x.k = "nan" -> NaN
      [] x.k = "inf" -> IF p = 0 THEN NaN ELSE Inf(x.s * Sign(p))
      [] OTHER -> Fin(x.n * p, x.d)

\* x - q for a float x and an integer q
SubInt(x, q) ==
    CASE x.k = "nan" -> NaN
      [] x.k = "inf" -> x
      [] OTHER -> Fin(x.n - q * x.d, x.d)

\* x * y for two floats
Mul(x, y) ==
    CASE x.k = "nan" \/ y.k = "nan" -> NaN
      [] x.k = "inf" /\ y.k = "inf" -> Inf(x.s * y.s)
      [] x.k = "inf" -> IF y.n = 0 THEN NaN ELSE Inf(x.s * Sign(y.n))
      [] y.k = "inf" -> IF x.n = 0 THEN NaN ELSE Inf(y.s * Sign(x.n))
      [] OTHER -> Fin(x.n * y.n, x.d * y.d)

\* x + y for two floats
Add(x, y) ==
    CASE x.k = "nan" \/ y.k = "nan" -> NaN
      [] x.k = "inf" /\ y.k = "inf" -> IF x.s = y.s THEN x ELSE NaN
      [] x.k = "inf" -> x
      [] y.k = "inf" -> y
      [] OTHER -> Fin(x.n * y.d + y.n * x.d, x.d * y.d)

\* the same float value (NaN taken as one value, as a missing-value marker)
NumEq(x, y) ==
    CASE x.k # y.k -> FALSE
      [] x.k = "nan" -> TRUE
      [] x.k = "inf" -> x.s = y.s
      [] OTHER -> x.n * y.d = y.n * x.d

-----------------------------------------------------------------------------
(* Dates: datetime.utcfromtimestamp(..).strftime('%Y-%m-%d') and            *)
(* pd.to_datetime of such a string.                                        *)

MsPerSecond == 1000
SecondsPerDay == 86400

\* a / b rounded toward zero (math.modf's integer part)
TruncDiv(a, b) == IF a >= 0 THEN a \div b ELSE -((-a) \div b)

\* a variant that drops the fraction toward zero and does not borrow
UtcSeconds_Truncating(timestamp) ==
    IF timestamp >= 0 THEN timestamp \div 1000 ELSE -((-timestamp) \div 1000)

\* utcfromtimestamp(timestamp / 1000): the whole seconds and the day they
\* fall in.  The fraction is split off toward zero and a negative fraction
\* borrows one second.
UtcSeconds(timestamp) ==
    LET t == TruncDiv(timestamp, MsPerSecond)
        frac == timestamp - t * MsPerSecond
    IN  IF frac < 0 THEN t - 1 ELSE t

UtcDay(timestamp) == UtcSeconds(timestamp) \div SecondsPerDay

\* the proleptic Gregorian date of a day number counted from 1970-01-01
CivilFromDays(z0) ==
    LET z == z0 + 719468
        era == z \div 146097
        doe == z - era * 146097
        yoe == (doe - doe \div 1460 + doe \div 36524 - doe \div 146096) \div 365
        doy == doe - (365 * yoe + yoe \div 4 - yoe \div 100)
        mp == (5 * doy + 2) \div 153
        d == doy - (153 * mp + 2) \div 5 + 1
        m == IF mp < 10 THEN mp + 3 ELSE mp - 9
        y == yoe + era * 400 + (IF m <= 2 THEN 1 ELSE 0)
    IN  [y |-> y, m |-> m, d |-> d]

\* the day number of a proleptic Gregorian date
DaysFromCivil(c) ==
    LET y == IF c.m <= 2 THEN c.y - 1 ELSE c.y
        era == y \div 400
        yoe == y - era * 400
        mp == IF c.m > 2 THEN c.m - 3 ELSE c.m + 9
        doy == (153 * mp + 2) \div 5 + c.d - 1
        doe == yoe * 365 + yoe \div 4 - yoe \div 100 + doy
    IN  era * 146097 + doe - 719468

DigitChars == <<"0", "1", "2", "3", "4", "5", "6", "7", "8", "9">>
DigitChar(n) == DigitChars[n + 1]
DigitVal(c) == CHOOSE n \in 0..9 : DigitChars[n + 1] = c

\* strftime('%Y-%m-%d') for a year of four digits
StrfDate(c) ==
    << DigitChar(c.y \div 1000), DigitChar((c.y \div 100) % 10),
       DigitChar((c.y \div 10) % 10), DigitChar(c.y % 10), "-",
       DigitChar(c.m \div 10), DigitChar(c.m % 10), "-",
       DigitChar(c.d \div 10), DigitChar(c.d % 10) >>

\* convert_timestamp, lines 206-207
convert_timestamp(timestamp) == StrfDate(CivilFromDays(UtcDay(timestamp)))

\* pd.to_datetime of a 'YYYY-MM-DD' string: the day number of its midnight
ParseDate(s) ==
    DaysFromCivil([y |-> DigitVal(s[1]) * 1000 + DigitVal(s[2]) * 100
                          + DigitVal(s[3]) * 10 + DigitVal(s[4]),
                   m |-> DigitVal(s[6]) * 10 + DigitVal(s[7]),
                   d |-> DigitVal(s[9]) * 10 + DigitVal(s[10])])

\* the order of two characters of a date string ('-' sorts before the digits)
CharRank(c) == IF c = "-" THEN 0 ELSE 1 + DigitVal(c)

\* s < t for two strings, as Python compares them
RECURSIVE StrLess(_, _)
StrLess(s, t) ==
    IF t = <<>> THEN FALSE
    ELSE IF s = <<>> THEN TRUE
    ELSE IF CharRank(Head(s)) # CharRank(Head(t))
         THEN CharRank(Head(s)) < CharRank(Head(t))
         ELSE StrLess(Tail(s), Tail(t))

-----------------------------------------------------------------------------
(* The two data providers, which the program consumes as they answer.      *)

\* the asset identifiers, in ascending string order
Assets == <<"bitcoin", "ethereum">>
IdRank(id) == CHOOSE r \in 1..Len(Assets) : Assets[r] = id
AssetSet == {Assets[r] : r \in 1..Len(Assets)}

\* the day (counted from 1970-01-01) on which the program runs
Today == 4

MsPerDay == MsPerSecond * SecondsPerDay

SeqsUpTo(S, n) == UNION {[1..k -> S] : k \in 0..n}
Min(a, b) == IF a <= b THEN a ELSE b

\* lists of distinct asset identifiers (run_script's ids)
IdLists == {l \in SeqsUpTo(AssetSet, Len(Assets)) :
              \A a, b \in 1..Len(l) : a # b => l[a] # l[b]}

\* The provider's daily series of n points ends today: point k is the
\* midnight of its day, and with dup the last point is the current moment
\* of today, after today's midnight point.
PointDay(n, k, dup) ==
    IF dup THEN (IF k = n THEN Today ELSE Today - (n - 1 - k))
           ELSE Today - (n - k)
PointMs(n, k, dup) ==
    PointDay(n, k, dup) * MsPerDay + (IF dup /\ k = n THEN MsPerDay - 1 ELSE 0)

\* a [timestamp, value] array of the market_chart document
RawSeries(values, dup) ==
    [k \in 1..Len(values) |-> <<PointMs(Len(values), k, dup), values[k]>>]

\* The answers are drawn from four families of market data:
\*   "caps"     any market caps in 0..MaxCap, a fixed price curve per asset
\*   "prices"   any prices in PriceValues, a fixed market cap per asset
\*   "lengths"  price and market-cap arrays of different lengths
\*   "example"  the market caps [100,200,300] and [100,100,100]
Studies == {"caps", "prices", "lengths", "example"}
PriceValues == {0, 1, 2}

DefaultPrices(id, n) == [k \in 1..n |-> 10 * IdRank(id) + k]
DefaultCaps(id, n) == [k \in 1..n |-> IdRank(id)]
ExampleCaps(id) ==
    IF id = Assets[1] THEN <<100, 200, 300>> ELSE <<100, 100, 100>>

\* the <<price values, market-cap values>> of the answers for one asset
ValueSeries(id, study) ==
    CASE study = "caps" ->
           {<<DefaultPrices(id, Len(cs)), cs>> : cs \in SeqsUpTo(0..MaxCap, MaxLen)}
      [] study = "prices" ->
           {<<ps, DefaultCaps(id, Len(ps))>> : ps \in SeqsUpTo(PriceValues, MaxLen)}
      [] study = "lengths" ->
           {<<DefaultPrices(id, nm[1]), DefaultCaps(id, nm[2])>> :
               nm \in {x \in (0..MaxLen) \X (0..MaxLen) : x[1] # x[2]}}
      [] study = "example" ->
           {<<DefaultPrices(id, Len(ExampleCaps(id))), ExampleCaps(id)>>}

\* what coingekko_download(id) can do: raise (requests.get, response.json),
\* return an error document without 'prices', or return a market chart
Responses(id, w) ==
    {[kind |-> "raise"], [kind |-> "error_doc"]}
    \cup {[kind |-> "ok", prices |-> RawSeries(vs[1], w.dup),
           market_caps |-> RawSeries(vs[2], w.dup)] : vs \in ValueSeries(id, w.study)}

\* the benchmark's closing value of a day
NasdaqClose(day) == 100 + day

\* what yahoo_download(start, end) can return: one row per trading day of
\* the range, where no day, or any one day, or every day is closed
TradingDaySets(lo, hi) ==
    {(lo..hi) \ closed : closed \in {{}} \cup {{c} : c \in lo..hi}} \cup {{}}

RECURSIVE SortedDays(_)
SortedDays(S) ==
    IF S = {} THEN <<>>
    ELSE LET m == CHOOSE x \in S : \A y \in S : x <= y
         IN  <<m>> \o SortedDays(S \ {m})

NasdaqRows(days) ==
    LET sd == SortedDays(days)
    IN  [k \in 1..Len(sd) |-> [Date |-> sd[k], Close |-> NasdaqClose(sd[k])]]

-----------------------------------------------------------------------------
(* Crypto.data_transform, lines 72-105.                                    *)

\* pd.DataFrame(): no columns, no rows
EmptyFrame == [cols |-> {}, date_dtype |-> "none", rows |-> <<>>]

RawCols == {"date", "price", "market_cap", "id"}

\* lines 88-92: zip(prices, market_caps) pairs the two arrays by position
\* and stops at the shorter
ZipRows(id, prices, market_caps) ==
    [k \in 1..Min(Len(prices), Len(market_caps)) |->
        [date |-> convert_timestamp(prices[k][1]),
         price |-> prices[k][2],
         market_cap |-> market_caps[k][2],
         id |-> id]]

\* a variant of line 98 that forgets the date filter: df['market_cap'].sum()
RECURSIVE TotalMarketCap_AllDates(_, _)
TotalMarketCap_AllDates(rs, date) ==
    IF rs = <<>> THEN 0
    ELSE Head(rs).market_cap + TotalMarketCap_AllDates(Tail(rs), date)

\* line 98: df[df['date'] == date]['market_cap'].sum()
RECURSIVE TotalMarketCap(_, _)
TotalMarketCap(rs, date) ==
    IF rs = <<>> THEN 0
    ELSE (IF Head(rs).date = date THEN Head(rs).market_cap ELSE 0)
         + TotalMarketCap(Tail(rs), date)

\* lines 100-101 for one row
Weight(row, total_market_cap) == Div(row.market_cap, total_market_cap)
IndexValue(weight, row) == MulInt(weight, row.price)

\* a variant of lines 94-103 that weighs each asset's rows against the
\* rows of that asset alone, as a computation inside the loop of line 84
\* would
WeightedFrame_PerAsset(rs) ==
    [cols |-> IF rs = <<>> THEN RawCols ELSE RawCols \cup {"weight", "index"},
     date_dtype |-> "object",
     rows |-> [k \in 1..Len(rs) |->
                 LET own == SelectSeq(rs, LAMBDA r : r.id = rs[k].id)
                     w == Weight(rs[k], TotalMarketCap(own, rs[k].date))
                 IN  [date |-> rs[k].date, price |-> rs[k].price,
                      market_cap |-> rs[k].market_cap, id |-> rs[k].id,
                      weight |-> w, index |-> IndexValue(w, rs[k])]]]

\* lines 94-103: the frame of all rows with weight and index set
WeightedFrame(rs) ==
    [cols |-> IF rs = <<>> THEN RawCols ELSE RawCols \cup {"weight", "index"},
     date_dtype |-> "object",
     rows |-> [k \in 1..Len(rs) |->
                 LET w == Weight(rs[k], TotalMarketCap(rs, rs[k].date))
                 IN  [date |-> rs[k].date, price |-> rs[k].price,
                      market_cap |-> rs[k].market_cap, id |-> rs[k].id,
                      weight |-> w, index |-> IndexValue(w, rs[k])]]]

-----------------------------------------------------------------------------
(* Crypto.nasdaq_data_transform, lines 107-131.                            *)

\* line 122: self.df['date'] = pd.to_datetime(self.df['date'])
ToDatetime(frame) ==
    IF frame.date_dtype = "datetime64" THEN frame
    ELSE [frame EXCEPT
            !.date_dtype = "datetime64",
            !.rows = [k \in 1..Len(frame.rows) |->
                        [frame.rows[k] EXCEPT !.date = ParseDate(@)]]]

\* a variant of the join that keeps a left row without a match (how='left')
JoinRow_Left(l, rs) ==
    LET hits == SelectSeq(rs, LAMBDA r : r.Date = l.date)
    IN  IF hits = <<>>
        THEN <<[date |-> l.date, price |-> l.price,
                market_cap |-> l.market_cap, id |-> l.id,
                weight |-> l.weight, index |-> l.index,
                Date |-> "NaT", Close |-> 0]>>
        ELSE [k \in 1..Len(hits) |->
                [date |-> l.date, price |-> l.price,
                 market_cap |-> l.market_cap, id |-> l.id,
                 weight |-> l.weight, index |-> l.index,
                 Date |-> hits[k].Date, Close |-> hits[k].Close]]

\* the rows of the right table that one left row joins with
RECURSIVE JoinRow(_, _)
JoinRow(l, rs) ==
    IF rs = <<>> THEN <<>>
    ELSE (IF Head(rs).Date = l.date
          THEN <<[date |-> l.date, price |-> l.price,
                  market_cap |-> l.market_cap, id |-> l.id,
                  weight |-> l.weight, index |-> l.index,
                  Date |-> Head(rs).Date, Close |-> Head(rs).Close]>>
          ELSE <<>>)
         \o JoinRow(l, Tail(rs))

\* line 124: pd.merge(.., left_on='date', right_on='Date', how='inner'),
\* in the order of the left rows
RECURSIVE InnerJoin(_, _)
InnerJoin(ls, rs) ==
    IF ls = <<>> THEN <<>>
    ELSE JoinRow(Head(ls), rs) \o InnerJoin(Tail(ls), rs)

\* the order of sort_values(by=['id', 'date'])
KeyLess(a, b) ==
    \/ IdRank(a.id) < IdRank(b.id)
    \/ (a.id = b.id /\ a.date < b.date)

RECURSIVE InsertRow(_, _)
InsertRow(x, s) ==
    IF s = <<>> THEN <<x>>
    ELSE IF KeyLess(x, Head(s)) THEN <<x>> \o s
    ELSE <<Head(s)>> \o InsertRow(x, Tail(s))

\* line 127: a stable sort by (id, date)
RECURSIVE SortValues(_)
SortValues(s) ==
    IF s = <<>> THEN <<>>
    ELSE InsertRow(s[Len(s)], SortValues(SubSeq(s, 1, Len(s) - 1)))

\* a variant of the shift without the groupby: the previous row of the table
GroupShift_Ungrouped(ms, k) == k - 1

\* groupby('id').shift(): the position of the previous row of the same id
\* in the sorted table, 0 if there is none
GroupShift(ms, k) ==
    LET before == {j \in 1..(k - 1) : ms[j].id = ms[k].id}
    IN  IF before = {} THEN 0 ELSE CHOOSE j \in before : \A h \in before : h <= j

\* pct_change() * 100 of a price against the shifted price: price / prev - 1
PctChange(price, prev) == MulInt(SubInt(Div(price, prev), 1), 100)

\* lines 127-129 on the joined rows
WithMetrics(joined) ==
    LET ms == SortValues(joined)
    IN  [k \in 1..Len(ms) |->
           LET j == GroupShift(ms, k)
               pct == IF j = 0 THEN NaN ELSE PctChange(ms[k].price, ms[j].price)
           IN  [date |-> ms[k].date, price |-> ms[k].price,
                market_cap |-> ms[k].market_cap, id |-> ms[k].id,
                weight |-> ms[k].weight, index |-> ms[k].index,
                Date |-> ms[k].Date, Close |-> ms[k].Close,
                price_pct_change |-> pct, metric |-> Mul(pct, ms[k].weight)]]

\* the merged table nasdaq_data_transform builds from a frame that has the
\* weight column
MergedFrame(frame, nasdaq) ==
    [cols |-> frame.cols \cup {"Date", "Close", "price_pct_change", "metric"},
     date_dtype |-> "datetime64",
     rows |-> WithMetrics(InnerJoin(ToDatetime(frame).rows, nasdaq))]

\* lines 124-128 on a frame without rows, which has no weight column: the
\* table self.merged_df holds when line 129 raises KeyError
MergedWithoutWeight(frame) ==
    [cols |-> frame.cols \cup {"Date", "Close", "price_pct_change"},
     date_dtype |-> "datetime64",
     rows |-> <<>>]

-----------------------------------------------------------------------------
(* Crypto.comparison_graph, lines 133-184.                                 *)

MetricNames == {"metric", "price_pct_change", "Close", "price"}

\* a column of a merged row as a float
ColumnValue(row, col) ==
    CASE col = "metric" -> row.metric
      [] col = "price_pct_change" -> row.price_pct_change
      [] col = "Close" -> Fin(row.Close, 1)
      [] col = "price" -> Fin(row.price, 1)

\* the groupby 'sum' of a column over rows: missing values are skipped
RECURSIVE SumSkipNa(_, _)
SumSkipNa(rs, col) ==
    IF rs = <<>> THEN Fin(0, 1)
    ELSE LET v == ColumnValue(Head(rs), col)
             rest == SumSkipNa(Tail(rs), col)
         IN  IF IsNaN(v) THEN rest ELSE Add(v, rest)

RowsOf(rs, id) == SelectSeq(rs, LAMBDA r : r.id = id)
RowsOn(rs, date) == SelectSeq(rs, LAMBDA r : r.date = date)

\* lines 150-159: the rows of id, summed per date, by ascending date
ChartPoints(rs, id, left_metric, right_metric) ==
    LET mine == RowsOf(rs, id)
        dates == SortedDays({mine[k].date : k \in 1..Len(mine)})
    IN  [k \in 1..Len(dates) |->
           [date |-> dates[k],
            left |-> SumSkipNa(RowsOn(mine, dates[k]), left_metric),
            right |-> SumSkipNa(RowsOn(mine, dates[k]), right_metric)]]

\* a variant of comparison_graph without the guard of lines 145-147
comparison_graph_NoGuard(merged, id, left_metric, right_metric) ==
    [ev |-> "show", id |-> id, left |-> left_metric, right |-> right_metric,
     points |-> ChartPoints(merged.rows, id, left_metric, right_metric)]

\* what one call of comparison_graph does: it prints the no-data line and
\* returns (lines 145-147), or draws and shows a figure (lines 150-184)
comparison_graph(merged, id, left_metric, right_metric) ==
    IF merged.rows = <<>>
    THEN [ev |-> "no_data", id |-> id]
    ELSE [ev |-> "show", id |-> id, left |-> left_metric, right |-> right_metric,
          points |-> ChartPoints(merged.rows, id, left_metric, right_metric)]

-----------------------------------------------------------------------------
(* The state machine: a client that may call comparison_graph on the new   *)
(* object and then calls run_script once (main, lines 210-218).            *)

NoFile == [written |-> FALSE]
NoTs == "none"

\* self.df['date'].min() and .max() of a frame with rows, lines 198-199
RECURSIVE MinDate(_)
MinDate(rs) ==
    IF Len(rs) = 1 THEN rs[1].date
    ELSE LET m == MinDate(Tail(rs))
         IN  IF StrLess(m, Head(rs).date) THEN m ELSE Head(rs).date
RECURSIVE MaxDate(_)
MaxDate(rs) ==
    IF Len(rs) = 1 THEN rs[1].date
    ELSE LET m == MaxDate(Tail(rs))
         IN  IF StrLess(Head(rs).date, m) THEN m ELSE Head(rs).date

\* lines 203-204: one comparison_graph call per id, in list order
GraphLoop(merged, l) ==
    [k \in 1..Len(l) |-> comparison_graph(merged, l[k], "metric", "Close")]

Init ==
    /\ pc = "idle"
    /\ ids = <<>>
    /\ i = 0
    /\ rows = <<>>
    /\ df = EmptyFrame
    /\ merged_df = EmptyFrame
    /\ nasdaq_data = <<>>
    /\ responses = <<>>
    /\ window \in [dup : BOOLEAN, study : Studies]
    /\ output = <<>>
    /\ csv = NoFile
    /\ ts_in = NoTs
    /\ ts_out = NoTs

\* a call of comparison_graph on the object as constructed
CallComparisonGraph ==
    /\ pc = "idle"
    /\ \E id \in AssetSet, left_metric \in MetricNames, right_metric \in MetricNames :
          output' = <<comparison_graph(merged_df, id, left_metric, right_metric)>>
    /\ UNCHANGED <<pc, ids, i, rows, df, merged_df, nasdaq_data, responses,
                   window, csv, ts_in, ts_out>>

\* run_script is entered and calls data_transform: lines 197, 82
CallRunScript ==
    /\ pc = "idle"
    /\ \E l \in IdLists : ids' = l
    /\ pc' = "data_transform"
    /\ i' = 1
    /\ rows' = <<>>
    /\ responses' = <<>>
    /\ output' = <<>>
    /\ csv' = NoFile
    /\ UNCHANGED <<df, merged_df, nasdaq_data, window, ts_in, ts_out>>

\* one pass of the loop of lines 84-92 in which the download succeeds
FetchOk ==
    /\ pc = "data_transform"
    /\ i <= Len(ids)
    /\ \E r \in Responses(ids[i], window) :
          /\ r.kind = "ok"
          /\ responses' = Append(responses, r)
          /\ rows' = rows \o ZipRows(ids[i], r.prices, r.market_caps)
    /\ i' = i + 1
    /\ UNCHANGED <<pc, ids, df, merged_df, nasdaq_data, window, output, csv,
                   ts_in, ts_out>>

\* a variant of the failing pass that skips the asset and goes on
FetchFail_SkipAsset ==
    /\ pc = "data_transform"
    /\ i <= Len(ids)
    /\ \E r \in Responses(ids[i], window) :
          /\ r.kind # "ok"
          /\ responses' = Append(responses, r)
    /\ i' = i + 1
    /\ UNCHANGED <<pc, ids, rows, df, merged_df, nasdaq_data, window, output,
                   csv, ts_in, ts_out>>

\* one pass of the loop in which coingekko_download raises (lines 68-70) or
\* returns a document without 'prices' (KeyError, line 86): the exception
\* leaves data_transform and run_script
FetchFail ==
    /\ pc = "data_transform"
    /\ i <= Len(ids)
    /\ \E r \in Responses(ids[i], window) :
          /\ r.kind # "ok"
          /\ responses' = Append(responses, r)
    /\ pc' = "failed"
    /\ UNCHANGED <<ids, i, rows, df, merged_df, nasdaq_data, window, output,
                   csv, ts_in, ts_out>>

\* the rest of data_transform after the loop: lines 94-105
BuildIndex ==
    /\ pc = "data_transform"
    /\ i > Len(ids)
    /\ df' = WeightedFrame(rows)
    /\ rows' = <<>>
    /\ pc' = "merge"
    /\ UNCHANGED <<ids, i, merged_df, nasdaq_data, responses, window, output,
                   csv, ts_in, ts_out>>

\* lines 198-204 on an index with rows: the benchmark is downloaded for
\* [min date, max date], merged, written and one chart per id is asked for
MergeAndPresent ==
    /\ pc = "merge"
    /\ df.rows # <<>>
    /\ \E days \in TradingDaySets(ParseDate(MinDate(df.rows)),
                                  ParseDate(MaxDate(df.rows))) :
          /\ nasdaq_data' = NasdaqRows(days)
          /\ merged_df' = MergedFrame(df, nasdaq_data')
          /\ csv' = [written |-> TRUE, rows |-> merged_df'.rows]
          /\ output' = GraphLoop(merged_df', ids)
    /\ df' = ToDatetime(df)
    /\ pc' = "done"
    /\ UNCHANGED <<ids, i, rows, responses, window, ts_in, ts_out>>

\* lines 198-200 on an index without rows: min and max are NaN, and if the
\* benchmark download returns at all, the merged table has no weight column
\* and line 129 raises KeyError after self.merged_df was assigned
MergeWithoutRows ==
    /\ pc = "merge"
    /\ df.rows = <<>>
    /\ \E days \in SUBSET {Today} :
          /\ nasdaq_data' = NasdaqRows(days)
          /\ merged_df' = MergedWithoutWeight(df)
    /\ df' = ToDatetime(df)
    /\ pc' = "failed"
    /\ UNCHANGED <<ids, i, rows, responses, window, output, csv, ts_in, ts_out>>

\* yahoo_download raises (line 120): the exception leaves run_script
BenchmarkFail ==
    /\ pc = "merge"
    /\ pc' = "failed"
    /\ UNCHANGED <<ids, i, rows, df, merged_df, nasdaq_data, responses, window,
                   output, csv, ts_in, ts_out>>

Next ==
    \/ CallComparisonGraph
    \/ CallRunScript
    \/ FetchOk
    \/ FetchFail
    \/ BuildIndex
    \/ MergeAndPresent
    \/ MergeWithoutRows
    \/ BenchmarkFail

Spec == Init /\ [][Next]_vars

-----------------------------------------------------------------------------
(* convert_timestamp on its own: the argument is drawn in the initial      *)
(* state and the call is one step.                                         *)

TsOffsets == {0, 1, 999, 1000, 1001, MsPerDay - 1000, MsPerDay - 1}
TsInputs == {d * MsPerDay + off : d \in (-TsDays)..TsDays, off \in TsOffsets}

InitTs ==
    /\ pc = "ts_call"
    /\ ids = <<>>
    /\ i = 0
    /\ rows = <<>>
    /\ df = EmptyFrame
    /\ merged_df = EmptyFrame
    /\ nasdaq_data = <<>>
    /\ responses = <<>>
    /\ window = [dup |-> FALSE, study |-> "caps"]
    /\ output = <<>>
    /\ csv = NoFile
    /\ ts_in \in TsInputs
    /\ ts_out = NoTs

ConvertTimestamp ==
    /\ pc = "ts_call"
    /\ ts_out' = convert_timestamp(ts_in)
    /\ pc' = "ts_done"
    /\ UNCHANGED <<ids, i, rows, df, merged_df, nasdaq_data, responses, window,
                   output, csv, ts_in>>

NextTs == ConvertTimestamp

SpecTs == InitTs /\ [][NextTs]_vars

-----------------------------------------------------------------------------
(* Reference definitions used to state the properties.                     *)

RECURSIVE SumIdx(_, _)
SumIdx(f, S) ==
    IF S = {} THEN 0
    ELSE LET x == CHOOSE y \in S : TRUE
         IN  f[x] + SumIdx(f, S \ {x})

\* the sum of market_cap over the rows of rs that carry date
RefTotal(rs, date) ==
    LET S == {k \in 1..Len(rs) : rs[k].date = date}
    IN  SumIdx([k \in S |-> rs[k].market_cap], S)

SameDate(rs, k) == {j \in 1..Len(rs) : rs[j].date = rs[k].date}

\* the positional (price, market-cap) pairs of the answers, in the order of ids
RECURSIVE RefPairsFrom(_)
RefPairsFrom(p) ==
    IF p > Len(responses) THEN <<>>
    ELSE LET r == responses[p]
             n == IF Len(r.prices) <= Len(r.market_caps)
                  THEN Len(r.prices) ELSE Len(r.market_caps)
         IN  [k \in 1..n |-> [id |-> ids[p],
                              day |-> r.prices[k][1] \div 86400000,
                              price |-> r.prices[k][2],
                              cap |-> r.market_caps[k][2]]]
             \o RefPairsFrom(p + 1)

RefDayTotal(e, day) ==
    LET S == {k \in 1..Len(e) : e[k].day = day}
    IN  SumIdx([k \in S |-> e[k].cap], S)

-----------------------------------------------------------------------------
(* The Index Builder's properties.                                         *)

\* C1: once data_transform has stored self.df, for every date of the table
\* whose total market cap T is not zero, every weight w of that date is a
\* finite number with w * T a whole number, and these numbers w * T add up
\* to T: the weights of the date add up to exactly 1.
C1_WeightsSumToOne ==
    \A k \in 1..Len(df.rows) :
        LET S == SameDate(df.rows, k)
            T == RefTotal(df.rows, df.rows[k].date)
        IN  T # 0 =>
              /\ \A j \in S : /\ IsFin(df.rows[j].weight)
                              /\ (df.rows[j].weight.n * T) % df.rows[j].weight.d = 0
              /\ SumIdx([j \in S |-> (df.rows[j].weight.n * T)
                                        \div df.rows[j].weight.d], S) = T

\* C1's case: one date carries rows of two assets, another date carries
\* rows of one asset only, and both have a non-zero total.
C1_Witness ==
    /\ pc = "merge"
    /\ \E k, j \in 1..Len(df.rows) :
          /\ df.rows[k].date = df.rows[j].date
          /\ df.rows[k].id # df.rows[j].id
          /\ df.rows[k].market_cap > 0 /\ df.rows[j].market_cap > 0
    /\ \E k \in 1..Len(df.rows) :
          /\ \A j \in SameDate(df.rows, k) : df.rows[j].id = df.rows[k].id
          /\ RefTotal(df.rows, df.rows[k].date) # 0

\* C9: when data_transform returns, self.df holds exactly one row per
\* positional (price, market-cap) pair of every answer, in the order of ids;
\* the row carries the pair's UTC date, price, market cap and id, its weight
\* is its market cap divided by the sum of the market caps of ALL pairs of
\* ALL assets on that date (where that sum is not zero), and its index is
\* weight * price.  Nothing is deduplicated.  For the market caps
\* [100,200,300] and [100,100,100] on the same three dates the weights are
\* 1/2, 2/3, 3/4 and 1/2, 1/3, 1/4; when the last two points of both assets
\* fall on one date, both are counted in that date's total (2/7, 3/7 and
\* 1/7, 1/7).
C9_ExampleWeights(id, dup) ==
    IF id = Assets[1]
    THEN IF dup THEN <<Fin(1, 2), Fin(2, 7), Fin(3, 7)>>
                ELSE <<Fin(1, 2), Fin(2, 3), Fin(3, 4)>>
    ELSE IF dup THEN <<Fin(1, 2), Fin(1, 7), Fin(1, 7)>>
                ELSE <<Fin(1, 2), Fin(1, 3), Fin(1, 4)>>

C9_WeightFormula ==
    pc = "merge" =>
      LET e == RefPairsFrom(1)
      IN  /\ Len(df.rows) = Len(e)
          /\ \A k \in 1..Len(e) :
                LET r == df.rows[k]
                    T == RefDayTotal(e, e[k].day)
                IN  /\ r.id = e[k].id
                    /\ r.price = e[k].price
                    /\ r.market_cap = e[k].cap
                    /\ ParseDate(r.date) = e[k].day
                    /\ T # 0 =>
                         /\ IsFin(r.weight)
                         /\ r.weight.n * T = e[k].cap * r.weight.d
                         /\ IsFin(r.index)
                         /\ r.index.n * T = e[k].cap * e[k].price * r.index.d
          /\ (window.study = "example" /\ Len(ids) = 2) =>
                \A p \in 1..2 : \A k \in 1..3 :
                    NumEq(df.rows[3 * (p - 1) + k].weight,
                          C9_ExampleWeights(ids[p], window.dup)[k])

\* C9's case: the two example assets on the same three dates.
C9_Witness ==
    /\ pc = "merge"
    /\ window.study = "example"
    /\ ~window.dup
    /\ ids = <<Assets[2], Assets[1]>>
    /\ Len(df.rows) = 6

\* C5: every row of a date whose total market cap is zero has NaN as its
\* weight and as its index value, never 0 or another number, and every
\* merged row of such a date has NaN as its weight and as its metric.
C5_ZeroTotalIsNaN ==
    /\ \A k \in 1..Len(df.rows) :
          RefTotal(df.rows, df.rows[k].date) = 0 =>
             IsNaN(df.rows[k].weight) /\ IsNaN(df.rows[k].index)
    /\ \A k \in 1..Len(merged_df.rows) :
          RefTotal(df.rows, merged_df.rows[k].date) = 0 =>
             IsNaN(merged_df.rows[k].weight) /\ IsNaN(merged_df.rows[k].metric)

\* C5's case: a merged row of a zero-total date whose price change is a
\* number, so that its missing metric comes from its weight.
C5_Witness ==
    /\ pc = "done"
    /\ \E k \in 1..Len(merged_df.rows) :
          /\ RefTotal(df.rows, merged_df.rows[k].date) = 0
          /\ IsFin(merged_df.rows[k].price_pct_change)
          /\ IsNaN(merged_df.rows[k].metric)

\* C10: data_transform does not return normally (self.df is not stored and
\* run_script does not go on to the merge) when ids is empty or when some
\* answer's price and market-cap arrays differ in length.
C10_InputShapeChecked ==
    pc \in {"merge", "done"} =>
      /\ ids # <<>>
      /\ \A p \in 1..Len(responses) :
            Len(responses[p].prices) = Len(responses[p].market_caps)

-----------------------------------------------------------------------------
(* The Series Merger's and the Presenter's properties.                     *)

\* C2: every row of merged_df has a date on which the benchmark fetcher
\* returned a row and on which self.df has a row; no merged row exists for
\* a date without a benchmark row.
C2_InnerJoinExclusion ==
    \A k \in 1..Len(merged_df.rows) :
        /\ \E r \in 1..Len(nasdaq_data) :
              nasdaq_data[r].Date = merged_df.rows[k].date
        /\ \E j \in 1..Len(df.rows) : df.rows[j].date = merged_df.rows[k].date

\* C2's case: the merge kept some rows and dropped the rows of an index
\* date on which the benchmark has no row.
C2_Witness ==
    /\ pc = "done"
    /\ merged_df.rows # <<>>
    /\ \E j \in 1..Len(df.rows) :
          /\ \A r \in 1..Len(nasdaq_data) : nasdaq_data[r].Date # df.rows[j].date
          /\ \A k \in 1..Len(merged_df.rows) :
                merged_df.rows[k].date # df.rows[j].date

\* (price - prev) / prev * 100 as the value pct of a float
C3_IsPctOf(pct, price, prev) ==
    IF prev # 0
    THEN IsFin(pct) /\ pct.n * prev = 100 * (price - prev) * pct.d
    ELSE IF price = prev THEN IsNaN(pct)
    ELSE pct = Inf(Sign(price - prev))

\* C3: merged_df is sorted by (id ascending, date ascending); the first row
\* of every id has a missing price_pct_change, and every later row's
\* price_pct_change is (price - prev) / prev * 100 for the price prev of the
\* merged row just before it, which is a row of the same id.
C3_PctChangePerAsset ==
    LET ms == merged_df.rows
    IN  /\ \A k \in 1..(Len(ms) - 1) :
              \/ IdRank(ms[k].id) < IdRank(ms[k + 1].id)
              \/ ms[k].id = ms[k + 1].id /\ ms[k].date <= ms[k + 1].date
        /\ \A k \in 1..Len(ms) :
              IF k = 1 \/ ms[k - 1].id # ms[k].id
              THEN IsNaN(ms[k].price_pct_change)
              ELSE C3_IsPctOf(ms[k].price_pct_change, ms[k].price, ms[k - 1].price)

\* C3's case: two assets fetched in descending order of id, and a row whose
\* predecessor in the merged table is two calendar days older.
C3_Witness ==
    /\ pc = "done"
    /\ ids = <<Assets[2], Assets[1]>>
    /\ \E k \in 2..Len(merged_df.rows) :
          /\ merged_df.rows[k].id = Assets[2]
          /\ merged_df.rows[k - 1].id = Assets[2]
          /\ merged_df.rows[k].date = merged_df.rows[k - 1].date + 2
          /\ IsFin(merged_df.rows[k].price_pct_change)
    /\ \E k \in 1..Len(merged_df.rows) : merged_df.rows[k].id = Assets[1]

\* C4: when the download fails for any asset of ids, run_script ends in
\* failure with self.df and self.merged_df as they were before the call (the
\* empty frames of the constructor), no benchmark download, no
\* merged_data.csv and no comparison_graph call.
C4_FailFast ==
    (\E p \in 1..Len(responses) : responses[p].kind # "ok") =>
        /\ pc = "failed"
        /\ df = EmptyFrame
        /\ merged_df = EmptyFrame
        /\ nasdaq_data = <<>>
        /\ csv = NoFile
        /\ output = <<>>

\* C4's case: the second asset's download fails after the first asset's
\* rows were collected.
C4_Witness ==
    /\ pc = "failed"
    /\ Len(responses) = 2
    /\ responses[1].kind = "ok"
    /\ responses[2].kind # "ok"
    /\ rows # <<>>

\* C6: every comparison_graph call made while merged_df is empty prints the
\* no-data line and shows no figure, whatever the id and the two metrics;
\* after a merge that matched no date, run_script's loop makes one such
\* call per id.
C6_EmptyMergedNoRender ==
    merged_df.rows = <<>> =>
        /\ \A k \in 1..Len(output) : output[k].ev = "no_data"
        /\ pc = "done" =>
              /\ Len(output) = Len(ids)
              /\ \A k \in 1..Len(ids) : output[k].id = ids[k]

\* C6's case: a merge of a non-empty index that matched no date, followed
\* by the calls for two ids.
C6_Witness ==
    /\ pc = "done"
    /\ df.rows # <<>>
    /\ merged_df.rows = <<>>
    /\ Len(output) = 2

\* C8: when run_script has finished with a non-empty merged table, it has
\* called comparison_graph once per id in list order, and for an id without
\* a merged row the call printed the no-data line and showed no figure.
C8_PerAssetNoData ==
    (pc = "done" /\ merged_df.rows # <<>>) =>
        /\ Len(output) = Len(ids)
        /\ \A k \in 1..Len(ids) :
              /\ output[k].id = ids[k]
              /\ RowsOf(merged_df.rows, ids[k]) = <<>> => output[k].ev = "no_data"

-----------------------------------------------------------------------------
(* The Timestamp Normalizer's property.                                    *)

C7_IsLeap(y) == (y % 4 = 0 /\ y % 100 # 0) \/ y % 400 = 0
C7_DaysIn(y, m) ==
    IF m = 2 THEN (IF C7_IsLeap(y) THEN 29 ELSE 28)
    ELSE IF m \in {4, 6, 9, 11} THEN 30 ELSE 31

\* the date reached from day 1 of month m of year y by walking `day` days
RECURSIVE C7_Walk(_, _, _)
C7_Walk(day, y, m) ==
    IF day < 0
    THEN LET pm == IF m = 1 THEN 12 ELSE m - 1
             py == IF m = 1 THEN y - 1 ELSE y
         IN  C7_Walk(day + C7_DaysIn(py, pm), py, pm)
    ELSE IF day >= C7_DaysIn(y, m)
    THEN C7_Walk(day - C7_DaysIn(y, m), IF m = 12 THEN y + 1 ELSE y,
                 IF m = 12 THEN 1 ELSE m + 1)
    ELSE [y |-> y, m |-> m, d |-> day + 1]

C7_Epoch == <<"1", "9", "7", "0", "-", "0", "1", "-", "0", "1">>

\* C7: convert_timestamp(ms) is the 'YYYY-MM-DD' date of the day number
\* floor(ms / 86400000) counted from 1970-01-01: 0 and every ms up to
\* 86399999 give 1970-01-01, 86400000 gives 1970-01-02, -1 gives
\* 1969-12-31, and a timestamp <= 0 gives a date at or before 1970-01-01.
C7_ConvertTimestamp ==
    pc = "ts_done" =>
        LET c == C7_Walk(ts_in \div 86400000, 1970, 1)
        IN  /\ Len(ts_out) = 10
            /\ ts_out[5] = "-" /\ ts_out[8] = "-"
            /\ DigitVal(ts_out[1]) * 1000 + DigitVal(ts_out[2]) * 100
                 + DigitVal(ts_out[3]) * 10 + DigitVal(ts_out[4]) = c.y
            /\ DigitVal(ts_out[6]) * 10 + DigitVal(ts_out[7]) = c.m
            /\ DigitVal(ts_out[9]) * 10 + DigitVal(ts_out[10]) = c.d
            /\ (ts_in >= 0 /\ ts_in <= 86399999) => ts_out = C7_Epoch
            /\ ts_in = 86400000 =>
                  ts_out = <<"1", "9", "7", "0", "-", "0", "1", "-", "0", "2">>
            /\ ts_in = -1 =>
                  ts_out = <<"1", "9", "6", "9", "-", "1", "2", "-", "3", "1">>
            /\ ts_in <= 0 => (ts_out = C7_Epoch \/ StrLess(ts_out, C7_Epoch))

\* C7's case: the last millisecond before the epoch has been converted.
C7_Witness ==
    /\ pc = "ts_done"
    /\ ts_in = -1
    /\ ts_out = <<"1", "9", "6", "9", "-", "1", "2", "-", "3", "1">>

====
